---- MODULE Spec2Model ----
(***************************************************************************)
(* Control-flow-graph construction of rustrospective (src/src/cfg.rs).     *)
(*                                                                         *)
(* build_cfg(code, instructions, handlers) is modelled as a state machine: *)
(* the leader pass handles one instruction per step, block assembly is one *)
(* step, the edge pass handles one block per step, and the last step       *)
(* returns the graph.  A decode error (the `?` operator) or a panic ends   *)
(* the call at once with no graph.                                         *)
(*                                                                         *)
(* Offsets are zero-based as in the source; the byte at offset k of a code *)
(* buffer c is c[k + 1].                                                   *)
(*                                                                         *)
(* InsecureApiRule.run (src/src/rules/insecure_api.rs) is a second state   *)
(* machine over its own variables: one step per iteration of each of its   *)
(* three nested loops.  While one of the machines runs the other is at     *)
(* rest.                                                                   *)
(*                                                                         *)
(* scan_inputs (src/src/scan.rs) is a third state machine: the scan of the *)
(* input, the start of expand_classpath, one step per iteration of its     *)
(* worklist loop, one step per scanned classpath entry, and the return.    *)
(* A path is the rank of its path_key among the keys of the file system.   *)
(***************************************************************************)
EXTENDS Integers, Sequences, FiniteSets, TLC

VARIABLES
    code,               \* code: &[u8], the method's bytecode
    instructions,       \* instructions: &[Instruction], as <<[offset, opcode]>>
    exception_handlers, \* Method.exception_handlers, as <<[start_pc, end_pc, handler_pc]>>
    overflow_checks,    \* build profile: TRUE when integer overflow panics (debug)
    pc,                 \* position inside build_cfg
    idx,                \* index of the loop the call is in (1-based)
    leaders,            \* leaders: BTreeSet<u32>
    leader_list,        \* leader_list: Vec<u32>
    blocks,             \* blocks: Vec<BasicBlock>
    edges,              \* edges: Vec<FlowEdge>
    result,             \* what the call returned to its caller
    run,                \* number of the invocation on this input
    first,              \* what the first invocation returned
    context,            \* context.classes: Vec<Class> of the AnalysisContext
    given,              \* the context as the caller of the rule holds it
    rule_pc,            \* position inside InsecureApiRule.run
    cursor,             \* positions of the three nested loops (1-based)
    results,            \* results: Vec<SarifResult>
    files,              \* the file system: what is at each path
    input,              \* input: &Path
    classpath,          \* classpath: &[PathBuf]
    scan_pc,            \* position inside scan_inputs / expand_classpath
    artifacts,          \* artifacts: Vec<Artifact>
    class_count,        \* class_count: usize
    classes,            \* classes: Vec<ClassRecord>
    queue,              \* expand_classpath: queue: VecDeque<PathBuf>
    seen,               \* expand_classpath: seen: BTreeSet<String>
    expanded,           \* expand_classpath: result, then scan_inputs: expanded
    entry_idx,          \* index of `for entry in expanded` (1-based)
    scan_result         \* what scan_inputs returned to its caller

cfg_vars == <<code, instructions, exception_handlers, overflow_checks, pc, idx,
              leaders, leader_list, blocks, edges, result, run, first>>

rule_vars == <<context, given, rule_pc, cursor, results>>

scan_vars == <<files, input, classpath, scan_pc, artifacts, class_count,
               classes, queue, seen, expanded, entry_idx, scan_result>>

vars == <<cfg_vars, rule_vars, scan_vars>>

---------------------------------------------------------------------------
(* Bounds of the model.                                                    *)

\* Largest number of instruction templates an input method is assembled of.
MaxInsts == 3

---------------------------------------------------------------------------
(* Integer widths.                                                         *)

MaxI32 == 2147483647
MinI32 == -MaxI32 - 1
U16Modulus == 65536

---------------------------------------------------------------------------
(* Opcodes (crate::opcodes).                                               *)

NOP == 0
IFEQ == 153
IF_ACMPNE == 166
GOTO == 167
JSR == 168
TABLESWITCH == 170
LOOKUPSWITCH == 171
IRETURN == 172
LRETURN == 173
FRETURN == 174
DRETURN == 175
ARETURN == 176
RETURN == 177
ATHROW == 191
IFNULL == 198
IFNONNULL == 199
GOTO_W == 200
JSR_W == 201

---------------------------------------------------------------------------
(* Values returned by the fallible helpers: Result<T> of anyhow, plus the  *)
(* abnormal end of the thread (a panic).                                   *)

Ok(v) == [tag |-> "Ok", val |-> v]
Err == [tag |-> "Err", val |-> <<>>]
Panic == [tag |-> "Panic", val |-> <<>>]
\* Ok(None) and Ok(Some(targets)) of branch_targets
NoTargets == [tag |-> "None", val |-> <<>>]
SomeTargets(ts) == [tag |-> "Some", val |-> ts]

Byte(c, k) == c[k + 1]

\* crate::scan::read_u16: two bytes, big-endian; an error past the end.
read_u16(c, offset) ==
    IF offset + 2 > Len(c) THEN Err
    ELSE Ok(Byte(c, offset) * 256 + Byte(c, offset + 1))

\* crate::scan::read_u32 followed by i32::from_be_bytes: the value is built
\* signed so that every intermediate stays inside 32 bits.
read_i32(c, offset) ==
    IF offset + 4 > Len(c) THEN Err
    ELSE LET b0 == Byte(c, offset)
             hi == IF b0 >= 128 THEN b0 - 256 ELSE b0
         IN  Ok(hi * 16777216 + Byte(c, offset + 1) * 65536
                + Byte(c, offset + 2) * 256 + Byte(c, offset + 3))

read_i16(c, offset) ==
    LET value == read_u16(c, offset)
    IN  IF value.tag = "Err" THEN Err
        ELSE Ok(IF value.val >= 32768 THEN value.val - U16Modulus ELSE value.val)

\* crate::scan::padding: bytes that align the switch header to 4.
padding(offset) == (4 - ((offset + 1) % 4)) % 4

\* `offset as i32 + operand` in i32: the addition overflows when the sum
\* exceeds i32::MAX (offset is never negative).  With overflow checks the
\* thread panics, without them the sum wraps.
AddOverflows(offset, operand) == operand > MaxI32 - offset

WrappingAdd(offset, operand) ==
    IF AddOverflows(offset, operand)
    THEN ((operand + MinI32) + offset) + MinI32
    ELSE offset + operand

\* `value as u16`
AsU16(value) == value % U16Modulus

\* (offset as i32 + operand) as u16
TargetOf(offset, operand) ==
    IF AddOverflows(offset, operand) /\ overflow_checks THEN Panic
    ELSE Ok(AsU16(WrappingAdd(offset, operand)))

---------------------------------------------------------------------------
(* Branch-target resolution.                                               *)

\* high.checked_sub(low).and_then(|v| v.checked_add(1)).context(..)?
CaseCount(low, high) ==
    LET sub_overflows == \/ (low > 0 /\ high < MinI32 + low)
                         \/ (low < 0 /\ high > MaxI32 + low)
    IN  IF sub_overflows THEN Err
        ELSE IF high - low = MaxI32 THEN Err
        ELSE Ok(high - low + 1)

\* The loop of tableswitch_targets / lookupswitch_targets: `remaining`
\* entries of `stride` bytes are left, the 4-byte offset of the next one is
\* at `at`.  A read past the end ends the loop with an error.
RECURSIVE SwitchLoop(_, _, _, _, _, _)
SwitchLoop(c, offset, at, stride, remaining, targets) ==
    IF remaining <= 0 THEN Ok(targets)
    ELSE LET target == read_i32(c, at)
         IN  IF target.tag = "Err" THEN Err
             ELSE LET t == TargetOf(offset, target.val)
                  IN  IF t.tag = "Panic" THEN Panic
                      ELSE SwitchLoop(c, offset, at + stride, stride,
                                      remaining - 1, Append(targets, t.val))

\* tableswitch_targets with a loop of high - low iterations.
tableswitch_targets_short(c, offset) ==
    LET base == offset + 1 + padding(offset)
        default == read_i32(c, base)
        low == read_i32(c, base + 4)
        high == read_i32(c, base + 8)
    IN  IF default.tag = "Err" \/ low.tag = "Err" \/ high.tag = "Err" THEN Err
        ELSE LET count == CaseCount(low.val, high.val)
             IN  IF count.tag = "Err" THEN Err
                 ELSE LET d == TargetOf(offset, default.val)
                      IN  IF d.tag = "Panic" THEN Panic
                          ELSE SwitchLoop(c, offset, base + 12, 4,
                                          count.val - 1, <<d.val>>)

tableswitch_targets(c, offset) ==
    LET base == offset + 1 + padding(offset)
        default == read_i32(c, base)
        low == read_i32(c, base + 4)
        high == read_i32(c, base + 8)
    IN  IF default.tag = "Err" \/ low.tag = "Err" \/ high.tag = "Err" THEN Err
        ELSE LET count == CaseCount(low.val, high.val)
             IN  IF count.tag = "Err" THEN Err
                 ELSE LET d == TargetOf(offset, default.val)
                      IN  IF d.tag = "Panic" THEN Panic
                          ELSE SwitchLoop(c, offset, base + 12, 4,
                                          count.val, <<d.val>>)

\* lookupswitch_targets reading the first word of each pair (the match).
lookupswitch_targets_match_word(c, offset) ==
    LET base == offset + 1 + padding(offset)
        default == read_i32(c, base)
        npairs == read_i32(c, base + 4)
    IN  IF default.tag = "Err" \/ npairs.tag = "Err" THEN Err
        ELSE LET d == TargetOf(offset, default.val)
             IN  IF d.tag = "Panic" THEN Panic
                 ELSE SwitchLoop(c, offset, base + 8, 8,
                                 npairs.val, <<d.val>>)

lookupswitch_targets(c, offset) ==
    LET base == offset + 1 + padding(offset)
        default == read_i32(c, base)
        npairs == read_i32(c, base + 4)
    IN  IF default.tag = "Err" \/ npairs.tag = "Err" THEN Err
        ELSE LET d == TargetOf(offset, default.val)
             IN  IF d.tag = "Panic" THEN Panic
                 ELSE SwitchLoop(c, offset, base + 8 + 4, 8,
                                 npairs.val, <<d.val>>)

IsShortBranch(opcode) ==
    \/ opcode \in IFEQ..IF_ACMPNE
    \/ opcode \in {GOTO, JSR, IFNULL, IFNONNULL}

IsWideBranch(opcode) == opcode \in {GOTO_W, JSR_W}

\* Result<Option<Vec<u16>>>: Err, NoTargets or SomeTargets; Panic when the
\* index code[offset] is out of bounds or an addition overflows.
branch_targets(c, offset) ==
    IF offset >= Len(c) THEN Panic
    ELSE LET opcode == Byte(c, offset)
         IN  IF IsShortBranch(opcode) THEN
                 LET branch == read_i16(c, offset + 1)
                 IN  IF branch.tag = "Err" THEN Err
                     ELSE LET t == TargetOf(offset, branch.val)
                          IN  IF t.tag = "Panic" THEN Panic
                              ELSE SomeTargets(<<t.val>>)
             ELSE IF IsWideBranch(opcode) THEN
                 LET branch == read_i32(c, offset + 1)
                 IN  IF branch.tag = "Err" THEN Err
                     ELSE LET t == TargetOf(offset, branch.val)
                          IN  IF t.tag = "Panic" THEN Panic
                              ELSE SomeTargets(<<t.val>>)
             ELSE IF opcode = TABLESWITCH THEN
                 LET ts == tableswitch_targets(c, offset)
                 IN  IF ts.tag = "Ok" THEN SomeTargets(ts.val) ELSE ts
             ELSE IF opcode = LOOKUPSWITCH THEN
                 LET ts == lookupswitch_targets(c, offset)
                 IN  IF ts.tag = "Ok" THEN SomeTargets(ts.val) ELSE ts
             ELSE NoTargets

\* The exit opcodes without athrow.
is_exit_opcode_no_athrow(opcode) ==
    opcode \in {IRETURN, LRETURN, FRETURN, DRETURN, ARETURN, RETURN}

is_exit_opcode(opcode) ==
    opcode \in {IRETURN, LRETURN, FRETURN, DRETURN, ARETURN, RETURN, ATHROW}

\* is_unconditional_branch with GOTO missing from the pattern.
is_unconditional_branch_no_goto(opcode) == opcode \in {JSR, GOTO_W, JSR_W}

is_unconditional_branch(opcode) == opcode \in {GOTO, JSR, GOTO_W, JSR_W}

\* next_block_start that does not look the offset up among the blocks.
next_block_start_unchecked(bs, offset) == <<offset>>

\* blocks.iter().find(|b| b.start_offset == offset).map(|b| b.start_offset),
\* as the sequence of the starts found: empty (None) or one element (Some).
next_block_start(bs, offset) ==
    IF \E k \in 1..Len(bs) : bs[k].start_offset = offset
    THEN <<offset>>
    ELSE <<>>

---------------------------------------------------------------------------
(* Instruction lengths (crate::scan::opcode_length, the opcode table).     *)

\* Encoded length of the opcodes whose length does not depend on operands.
FixedLength(opcode) ==
    IF IsShortBranch(opcode) THEN 3
    ELSE IF IsWideBranch(opcode) THEN 5
    ELSE IF opcode \in {16, 18, 169, 188} \/ opcode \in 21..25 \/ opcode \in 54..58
         THEN 2
    ELSE IF opcode \in {17, 19, 20, 132, 187, 189, 192, 193} \/ opcode \in 178..184
         THEN 3
    ELSE IF opcode = 197 THEN 4
    ELSE IF opcode \in {185, 186} THEN 5
    ELSE 1

\* tableswitch: opcode, padding, default/low/high, 4 bytes per case of the
\* inclusive range [low, high]; lookupswitch: opcode, padding,
\* default/npairs, 8 bytes per pair.  Reading the header past the end of
\* the buffer is a decode error, and so is a table announcing more entries
\* than the buffer has bytes.  An empty range or pair list has no entries.
opcode_length(c, offset) ==
    IF offset >= Len(c) THEN Err
    ELSE LET opcode == Byte(c, offset)
             base == offset + 1 + padding(offset)
         IN  IF opcode = TABLESWITCH THEN
                 LET low == read_i32(c, base + 4)
                     high == read_i32(c, base + 8)
                 IN  IF low.tag = "Err" \/ high.tag = "Err" THEN Err
                     ELSE LET count == CaseCount(low.val, high.val)
                          IN  IF count.tag = "Err" THEN Err
                              ELSE IF count.val <= 0 THEN Ok(1 + padding(offset) + 12)
                              ELSE IF count.val > Len(c) THEN Err
                              ELSE Ok(1 + padding(offset) + 12 + 4 * count.val)
             ELSE IF opcode = LOOKUPSWITCH THEN
                 LET npairs == read_i32(c, base + 4)
                 IN  IF npairs.tag = "Err" THEN Err
                     ELSE IF npairs.val <= 0 THEN Ok(1 + padding(offset) + 8)
                     ELSE IF npairs.val > Len(c) THEN Err
                     ELSE Ok(1 + padding(offset) + 8 + 8 * npairs.val)
             ELSE Ok(FixedLength(opcode))

---------------------------------------------------------------------------
(* Input methods.  A method body is assembled from instruction templates;  *)
(* the operands are chosen so that targets fall on instruction starts,     *)
(* inside instructions, before offset 0 and past the end of the code, and  *)
(* so that the 32-bit arithmetic reaches its limits.                       *)

\* Two's-complement big-endian encodings of an operand.
BE16(v) ==
    LET u == IF v < 0 THEN v + U16Modulus ELSE v
    IN  <<u \div 256, u % 256>>

BE32(v) ==
    LET low31 == IF v < 0 THEN v - MinI32 ELSE v
        b0 == (low31 \div 16777216) + (IF v < 0 THEN 128 ELSE 0)
    IN  <<b0, (low31 \div 65536) % 256, (low31 \div 256) % 256, low31 % 256>>

Plain(bytes) == [switch |-> FALSE, bytes |-> bytes]
\* A switch: the opcode, then (after the alignment padding) header and table.
Switch(opcode, table) == [switch |-> TRUE, bytes |-> <<opcode>> \o table]

Templates ==
    { Plain(<<NOP>>),
      Plain(<<NOP, NOP>>),
      Plain(<<RETURN>>),
      Plain(<<ATHROW>>),
      Plain(<<IFEQ>> \o BE16(4)),
      Plain(<<IFEQ>> \o BE16(-1)),
      Plain(<<GOTO>> \o BE16(3)),
      Plain(<<GOTO_W>> \o BE32(MaxI32)),
      \* tableswitch default=+24, low=0, high=1, cases +0 and -1
      Switch(TABLESWITCH, BE32(24) \o BE32(0) \o BE32(1) \o BE32(0) \o BE32(-1)),
      \* tableswitch default=+16, low=1, high=0, no case
      Switch(TABLESWITCH, BE32(16) \o BE32(1) \o BE32(0)),
      \* lookupswitch default=+20, pairs (match 9, offset +1) and
      \* (match 3, offset -1)
      Switch(LOOKUPSWITCH, BE32(20) \o BE32(2) \o BE32(9) \o BE32(1)
                           \o BE32(3) \o BE32(-1)) }

\* Number of trailing bytes cut off an assembled method.
Truncations == {0, 1}

HandlerTables ==
    { <<>>,
      << [start_pc |-> 0, end_pc |-> 1, handler_pc |-> 1] >> }

Zeros(n) == [k \in 1..n |-> 0]

Encode(template, offset) ==
    IF template.switch
    THEN <<Head(template.bytes)>> \o Zeros(padding(offset)) \o Tail(template.bytes)
    ELSE template.bytes

RECURSIVE Assemble(_, _, _)
Assemble(templates, k, bytes) ==
    IF k > Len(templates) THEN bytes
    ELSE Assemble(templates, k + 1, bytes \o Encode(templates[k], Len(bytes)))

Truncate(bytes, n) ==
    IF n >= Len(bytes) THEN <<>> ELSE SubSeq(bytes, 1, Len(bytes) - n)

\* The instruction decoder: one instruction per offset reached by walking
\* the code from offset 0 by instruction lengths.
RECURSIVE DecodeFrom(_, _, _)
DecodeFrom(c, offset, decoded) ==
    IF offset >= Len(c) THEN Ok(decoded)
    ELSE LET length == opcode_length(c, offset)
         IN  IF length.tag = "Err" THEN Err
             ELSE DecodeFrom(c, offset + length.val,
                             Append(decoded, [offset |-> offset,
                                              opcode |-> Byte(c, offset)]))

Decode(c) == DecodeFrom(c, 0, <<>>)

\* The handlers argument of build_cfg: the handler_pc of every handler.
HandlerPcs(table) == [k \in 1..Len(table) |-> table[k].handler_pc]

---------------------------------------------------------------------------
(* build_cfg.                                                              *)

Range(seq) == {seq[k] : k \in 1..Len(seq)}

Pending == [tag |-> "Pending", graph |-> <<>>]
Failed(tag) == [tag |-> tag, graph |-> <<>>]
Returned(bs, es) == [tag |-> "Ok", graph |-> << [blocks |-> bs, edges |-> es] >>]

\* leaders after the handler loop
InitialLeaders(handlers) == {0} \cup Range(handlers)

\* LeadersOf that inserts the following offset only after a conditional
\* branch or switch, not after an unconditional one.
LeadersOfNoNextAfterGoto(inst, targets, next) ==
    (IF targets.tag = "Some"
     THEN Range(targets.val)
          \cup (IF inst.opcode \in {GOTO, JSR, GOTO_W, JSR_W} THEN {} ELSE {next})
     ELSE {})
    \cup (IF inst.opcode \in {IRETURN, LRETURN, FRETURN, DRETURN, ARETURN,
                              RETURN, ATHROW}
          THEN {next} ELSE {})

\* LeadersOf that inserts nothing for an exit instruction.
LeadersOfNoNextAfterExit(inst, targets, next) ==
    IF targets.tag = "Some" THEN Range(targets.val) \cup {next} ELSE {}

\* What one iteration of the leader loop inserts, given the resolved
\* targets and the offset following the instruction.
LeadersOf(inst, targets, next) ==
    (IF targets.tag = "Some" THEN Range(targets.val) \cup {next} ELSE {})
    \cup (IF is_exit_opcode(inst.opcode) THEN {next} ELSE {})

RECURSIVE SortedSeq(_)
SortedSeq(set) ==
    IF set = {} THEN <<>>
    ELSE LET least == CHOOSE x \in set : \A y \in set : x <= y
         IN  <<least>> \o SortedSeq(set \ {least})

\* LeaderList without `retain`: leaders past the end of the code are kept.
LeaderListNoRetain(set, code_len) == SortedSeq(set)

\* leaders.into_iter().collect(); retain; sort; dedup
LeaderList(set, code_len) == SortedSeq({offset \in set : offset < code_len})

\* BlockAt whose filter includes the end offset (`<=` for `<`).
BlockAtInclusiveEnd(list, k, insts, code_len) ==
    IF k < Len(list)
    THEN [start_offset |-> list[k],
          end_offset |-> list[k + 1],
          instructions |-> SelectSeq(insts,
              LAMBDA inst : inst.offset >= list[k] /\ inst.offset <= list[k + 1])]
    ELSE [start_offset |-> list[k],
          end_offset |-> code_len,
          instructions |-> SelectSeq(insts, LAMBDA inst : inst.offset >= list[k])]

\* The block that starts at list[k].
BlockAt(list, k, insts, code_len) ==
    IF k < Len(list)
    THEN [start_offset |-> list[k],
          end_offset |-> list[k + 1],
          instructions |-> SelectSeq(insts,
              LAMBDA inst : inst.offset >= list[k] /\ inst.offset < list[k + 1])]
    ELSE [start_offset |-> list[k],
          end_offset |-> code_len,
          instructions |-> SelectSeq(insts, LAMBDA inst : inst.offset >= list[k])]

BlocksOf(list, insts, code_len) ==
    [k \in 1..Len(list) |-> BlockAt(list, k, insts, code_len)]

Edge(from, to, kind) == [from |-> from, to |-> to, kind |-> kind]

BranchEdges(block, targets) ==
    [k \in 1..Len(targets) |-> Edge(block.start_offset, targets[k], "Branch")]

\* The fall-through edge pushed with the kind of a branch edge.
FallThroughEdgesAsBranch(bs, block) ==
    LET next == next_block_start(bs, block.end_offset)
    IN  [k \in 1..Len(next) |-> Edge(block.start_offset, next[k], "Branch")]

FallThroughEdges(bs, block) ==
    LET next == next_block_start(bs, block.end_offset)
    IN  [k \in 1..Len(next) |-> Edge(block.start_offset, next[k], "FallThrough")]

\* The edges of a block with the fall-through edge pushed before the
\* branch edges.
EdgesOfFallThroughFirst(bs, block, last_inst, targets) ==
    IF targets.tag = "Some"
    THEN (IF ~is_unconditional_branch(last_inst.opcode)
          THEN FallThroughEdges(bs, block) ELSE <<>>)
         \o BranchEdges(block, targets.val)
    ELSE IF ~is_exit_opcode(last_inst.opcode)
    THEN FallThroughEdges(bs, block)
    ELSE <<>>

\* The edges one iteration of the edge loop pushes for a block whose last
\* instruction resolved to `targets`.
EdgesOf(bs, block, last_inst, targets) ==
    IF targets.tag = "Some"
    THEN BranchEdges(block, targets.val)
         \o (IF ~is_unconditional_branch(last_inst.opcode)
             THEN FallThroughEdges(bs, block) ELSE <<>>)
    ELSE IF ~is_exit_opcode(last_inst.opcode)
    THEN FallThroughEdges(bs, block)
    ELSE <<>>

\* The edge list kept from the previous call instead of a new one.
StaleEdges == edges

\* let mut edges = Vec::new();
NewEdges == <<>>

\* No call of InsecureApiRule.run is under way.
RuleAtRest ==
    /\ context = <<>>
    /\ given = <<>>
    /\ rule_pc = "idle"
    /\ cursor = [class |-> 1, method |-> 1, call |-> 1]
    /\ results = <<>>

\* scan_inputs has not returned.
ScanPending == [tag |-> "Pending", output |-> <<>>]

\* No call of scan_inputs is under way.
ScanAtRest ==
    /\ files = <<>>
    /\ input = 1
    /\ classpath = <<>>
    /\ scan_pc = "idle"
    /\ artifacts = <<>>
    /\ class_count = 0
    /\ classes = <<>>
    /\ queue = <<>>
    /\ seen = {}
    /\ expanded = <<>>
    /\ entry_idx = 1
    /\ scan_result = ScanPending

Inputs == <<code, instructions, exception_handlers, overflow_checks>>

\* build_cfg is entered with the code of a method the decoder accepted, the
\* instructions it decoded and the handler pcs of the method's exception
\* table; the handler loop has filled the leaders set.
Init ==
    /\ \E n \in 0..MaxInsts :
         \E templates \in [1..n -> Templates] :
           \E cut \in Truncations :
             /\ code = Truncate(Assemble(templates, 1, <<>>), cut)
             /\ Decode(code).tag = "Ok"
             /\ instructions = Decode(code).val
    /\ exception_handlers \in HandlerTables
    /\ overflow_checks \in BOOLEAN
    /\ pc = "leaders"
    /\ idx = 1
    /\ leaders = InitialLeaders(HandlerPcs(exception_handlers))
    /\ leader_list = <<>>
    /\ blocks = <<>>
    /\ edges = <<>>
    /\ result = Pending
    /\ run = 1
    /\ first = Pending
    /\ RuleAtRest
    /\ ScanAtRest

\* The call ends without a graph: `?` returned the error, or the thread
\* panicked.
Abort(tag) ==
    /\ pc' = "done"
    /\ result' = Failed(tag)
    /\ UNCHANGED <<idx, leaders, leader_list, blocks, edges>>

\* One iteration of `for inst in instructions`.
LeaderStep ==
    /\ pc = "leaders"
    /\ idx <= Len(instructions)
    /\ LET inst == instructions[idx]
           targets == branch_targets(code, inst.offset)
           length == opcode_length(code, inst.offset)
           needs_length == targets.tag = "Some" \/ is_exit_opcode(inst.opcode)
       IN  IF targets.tag \in {"Err", "Panic"} THEN Abort(targets.tag)
           ELSE IF needs_length /\ length.tag = "Err" THEN Abort("Err")
           ELSE /\ leaders' = leaders \cup
                        LeadersOf(inst, targets, inst.offset + length.val)
                /\ idx' = idx + 1
                /\ UNCHANGED <<pc, leader_list, blocks, edges, result>>
    /\ UNCHANGED <<Inputs, run, first>>
    /\ UNCHANGED <<rule_vars, scan_vars>>

\* The leader list, the blocks, and the empty edge list.
AssembleBlocks ==
    /\ pc = "leaders"
    /\ idx > Len(instructions)
    /\ leader_list' = LeaderList(leaders, Len(code))
    /\ blocks' = BlocksOf(leader_list', instructions, Len(code))
    /\ edges' = NewEdges
    /\ pc' = "edges"
    /\ idx' = 1
    /\ UNCHANGED <<Inputs, leaders, result, run, first>>
    /\ UNCHANGED <<rule_vars, scan_vars>>

\* One iteration of `for block in &blocks`.
EdgeStep ==
    /\ pc = "edges"
    /\ idx <= Len(blocks)
    /\ LET block == blocks[idx]
       IN  IF block.instructions = <<>>
           THEN /\ idx' = idx + 1
                /\ UNCHANGED <<pc, leaders, leader_list, blocks, edges, result>>
           ELSE LET last_inst == block.instructions[Len(block.instructions)]
                    targets == branch_targets(code, last_inst.offset)
                IN  IF targets.tag \in {"Err", "Panic"} THEN Abort(targets.tag)
                    ELSE /\ edges' = edges \o EdgesOf(blocks, block, last_inst, targets)
                         /\ idx' = idx + 1
                         /\ UNCHANGED <<pc, leaders, leader_list, blocks, result>>
    /\ UNCHANGED <<Inputs, run, first>>
    /\ UNCHANGED <<rule_vars, scan_vars>>

\* Ok(ControlFlowGraph { blocks, edges })
Return ==
    /\ pc = "edges"
    /\ idx > Len(blocks)
    /\ result' = Returned(blocks, edges)
    /\ pc' = "done"
    /\ UNCHANGED <<Inputs, idx, leaders, leader_list, blocks, edges, run, first>>
    /\ UNCHANGED <<rule_vars, scan_vars>>

\* The caller invokes build_cfg again on the same input.  The second call
\* creates its own leaders set on entry; its other locals are assigned by
\* the statements that declare them.
Rerun ==
    /\ pc = "done"
    /\ run = 1
    /\ run' = 2
    /\ first' = result
    /\ result' = Pending
    /\ pc' = "leaders"
    /\ idx' = 1
    /\ leaders' = InitialLeaders(HandlerPcs(exception_handlers))
    /\ UNCHANGED <<Inputs, leader_list, blocks, edges>>
    /\ UNCHANGED <<rule_vars, scan_vars>>

Next == LeaderStep \/ AssembleBlocks \/ EdgeStep \/ Return

Spec == Init /\ [][Next]_vars

NextRerun == Next \/ Rerun

SpecRerun == Init /\ [][NextRerun]_vars

---------------------------------------------------------------------------
(* InsecureApiRule.run.                                                    *)

\* Largest number of call sites in a context.
MaxCalls == 2

\* No call of build_cfg is under way.
CfgAtRest ==
    /\ code = <<>>
    /\ instructions = <<>>
    /\ exception_handlers = <<>>
    /\ overflow_checks = FALSE
    /\ pc = "idle"
    /\ idx = 1
    /\ leaders = {}
    /\ leader_list = <<>>
    /\ blocks = <<>>
    /\ edges = <<>>
    /\ result = Pending
    /\ run = 1
    /\ first = Pending

\* Class and method names of the contexts, in declaration order.
ClassNames == <<"com/example/App", "com/example/Util">>

MethodNames == <<"run", "main">>

\* CallSite { owner, name, .. }: the six insecure calls, a call pairing an
\* owner of one of them with a name of another, and a harmless call.
CallSites ==
    { [owner |-> "java/lang/Runtime", name |-> "exec"],
      [owner |-> "java/lang/ProcessBuilder", name |-> "<init>"],
      [owner |-> "java/lang/ProcessBuilder", name |-> "start"],
      [owner |-> "java/lang/reflect/Method", name |-> "invoke"],
      [owner |-> "java/lang/reflect/Constructor", name |-> "newInstance"],
      [owner |-> "java/lang/Class", name |-> "forName"],
      [owner |-> "java/lang/Runtime", name |-> "start"],
      [owner |-> "java/lang/String", name |-> "length"] }

\* The calls, in order, that `picks` places in method m of class c.
CallsAt(picks, c, m) ==
    LET placed == SelectSeq(picks, LAMBDA p : p.class = c /\ p.method = m)
    IN  [k \in 1..Len(placed) |-> placed[k].call]

\* context.classes with `counts[c]` methods in class c and the picked
\* calls.
ContextOf(counts, picks) ==
    [c \in 1..Len(counts) |->
        [name |-> ClassNames[c],
         methods |-> [m \in 1..counts[c] |->
                         [name |-> MethodNames[m],
                          descriptor |-> "()V",
                          calls |-> CallsAt(picks, c, m)]]]]

\* The owner/name pairs with the owner of one insecure call and the name
\* of any of them.
is_insecure_call_any_pairing(owner, name) ==
    /\ owner \in {"java/lang/Runtime", "java/lang/ProcessBuilder",
                   "java/lang/reflect/Method", "java/lang/reflect/Constructor",
                   "java/lang/Class"}
    /\ name \in {"exec", "<init>", "start", "invoke", "newInstance", "forName"}

is_insecure_call(owner, name) ==
    <<owner, name>> \in { <<"java/lang/Runtime", "exec">>,
                          <<"java/lang/ProcessBuilder", "<init>">>,
                          <<"java/lang/ProcessBuilder", "start">>,
                          <<"java/lang/reflect/Method", "invoke">>,
                          <<"java/lang/reflect/Constructor", "newInstance">>,
                          <<"java/lang/Class", "forName">> }

\* result_message(format!("Insecure API usage: {}.{}", owner, name))
result_message(owner, name) == <<"Insecure API usage: ", owner, ".", name>>

\* method_location: the logical location "{class}.{method}{descriptor}" of
\* kind "function".
method_location(class_name, method_name, descriptor) ==
    [name |-> <<class_name, ".", method_name, descriptor>>, kind |-> "function"]

\* SarifResult::builder().message(message).locations(vec![location]).build()
SarifResult(message, location) ==
    [message |-> message, locations |-> <<location>>]

\* A context handed to the rule.
InitRule ==
    /\ CfgAtRest
    /\ ScanAtRest
    /\ \E class_total \in 0..Len(ClassNames) :
         \E counts \in [1..class_total -> 0..Len(MethodNames)] :
           \E n \in 0..MaxCalls :
             \E picks \in [1..n -> [class : 1..class_total,
                                    method : 1..Len(MethodNames),
                                    call : CallSites]] :
               /\ \A k \in 1..n : picks[k].method <= counts[picks[k].class]
               /\ context = ContextOf(counts, picks)
    /\ given = context
    /\ rule_pc = "run"
    /\ cursor = [class |-> 1, method |-> 1, call |-> 1]
    /\ results = <<>>

\* One iteration of `for call in &method.calls`.
RuleCall ==
    /\ rule_pc = "run"
    /\ cursor.class <= Len(context)
    /\ cursor.method <= Len(context[cursor.class].methods)
    /\ cursor.call <= Len(context[cursor.class].methods[cursor.method].calls)
    /\ LET class == context[cursor.class]
           method == class.methods[cursor.method]
           call == method.calls[cursor.call]
       IN  results' =
             IF is_insecure_call(call.owner, call.name)
             THEN Append(results,
                         SarifResult(result_message(call.owner, call.name),
                                     method_location(class.name, method.name,
                                                     method.descriptor)))
             ELSE results
    /\ cursor' = [cursor EXCEPT !.call = @ + 1]
    /\ UNCHANGED <<context, given, rule_pc>>
    /\ UNCHANGED <<cfg_vars, scan_vars>>

\* The calls of the method are exhausted: `for method in &class.methods`
\* goes on.
RuleNextMethod ==
    /\ rule_pc = "run"
    /\ cursor.class <= Len(context)
    /\ cursor.method <= Len(context[cursor.class].methods)
    /\ cursor.call > Len(context[cursor.class].methods[cursor.method].calls)
    /\ cursor' = [cursor EXCEPT !.method = @ + 1, !.call = 1]
    /\ UNCHANGED <<context, given, rule_pc, results>>
    /\ UNCHANGED <<cfg_vars, scan_vars>>

\* The methods of the class are exhausted: `for class in &context.classes`
\* goes on.
RuleNextClass ==
    /\ rule_pc = "run"
    /\ cursor.class <= Len(context)
    /\ cursor.method > Len(context[cursor.class].methods)
    /\ cursor' = [class |-> cursor.class + 1, method |-> 1, call |-> 1]
    /\ UNCHANGED <<context, given, rule_pc, results>>
    /\ UNCHANGED <<cfg_vars, scan_vars>>

\* Ok(results)
RuleReturn ==
    /\ rule_pc = "run"
    /\ cursor.class > Len(context)
    /\ rule_pc' = "done"
    /\ UNCHANGED <<context, given, cursor, results>>
    /\ UNCHANGED <<cfg_vars, scan_vars>>

NextRule == RuleCall \/ RuleNextMethod \/ RuleNextClass \/ RuleReturn

SpecRule == InitRule /\ [][NextRule]_vars

---------------------------------------------------------------------------
(* The file system scan_inputs reads.                                      *)

\* Largest number of classpath entries passed to scan_inputs.
MaxClasspath == 1

\* The paths of the file system, all in one directory, in ascending order
\* of path_key; a path is its index here.
PathNames ==
    << [stem |-> "a", extension |-> "jar"],
       [stem |-> "b", extension |-> "jar"],
       [stem |-> "c", extension |-> "jar"],
       [stem |-> "d", extension |-> "class"] >>

Paths == 1..Len(PathNames)

\* The entry names of the archives, in ascending order; an entry name is
\* its index here.
EntryNames ==
    << [stem |-> "A", suffix |-> ".class"],
       [stem |-> "B", suffix |-> ".class"],
       [stem |-> "README", suffix |-> ".txt"],
       [stem |-> "module-info", suffix |-> ".class"] >>

\* Nothing is at the path.
NoFile ==
    [kind |-> "missing", parses |-> FALSE, entries |-> <<>>, class_path |-> <<>>]

\* A class file; `parses` tells whether parse_class_bytes accepts its bytes.
ClassFile(parses) ==
    [kind |-> "class", parses |-> parses, entries |-> <<>>, class_path |-> <<>>]

\* An archive: its entries in archive order and the entries of the
\* Class-Path attribute of its manifest, resolved against its directory.
JarFile(entries, class_path) ==
    [kind |-> "jar", parses |-> TRUE, entries |-> entries,
     class_path |-> class_path]

\* An archive entry; `parses` tells whether parse_class_bytes accepts it.
Entry(name, parses) == [name |-> name, parses |-> parses]

JarFiles ==
    { NoFile,
      JarFile(<<Entry(1, TRUE)>>, <<>>),
      JarFile(<<Entry(2, TRUE), Entry(1, TRUE)>>, <<3, 2>>),
      JarFile(<<Entry(1, TRUE), Entry(2, FALSE)>>, <<>>),
      JarFile(<<Entry(4, FALSE), Entry(3, FALSE), Entry(1, TRUE)>>, <<4>>),
      JarFile(<<Entry(1, TRUE)>>, <<1>>),
      JarFile(<<>>, <<2, 2>>) }

\* What the last archive may be: nothing, an archive without Class-Path,
\* an archive that names the first archive.
LastJarFiles ==
    { NoFile,
      JarFile(<<Entry(1, TRUE)>>, <<>>),
      JarFile(<<Entry(1, TRUE)>>, <<1>>) }

ClassFiles == { NoFile, ClassFile(TRUE), ClassFile(FALSE) }

\* What may be at the path.
FilesAt(path) ==
    IF PathNames[path].extension = "class" THEN ClassFiles
    ELSE IF path + 1 \in Paths /\ PathNames[path + 1].extension = "jar"
    THEN JarFiles
    ELSE LastJarFiles

FileSystems ==
    { fs \in [Paths -> JarFiles \cup ClassFiles] :
        \A path \in Paths : fs[path] \in FilesAt(path) }

\* The paths scan_inputs is given as its input.
InputPaths == {1, 4}

\* entry.exists()
exists(path) == files[path].kind # "missing"

is_jar_path(path) == PathNames[path].extension = "jar"

\* path.to_string_lossy().to_string(), as its rank among the keys.
path_key(path) == path

path_to_uri(path) == <<PathNames[path].stem, ".", PathNames[path].extension>>

\* format!("jar:{}!/{}", jar_path.to_string_lossy(), entry_name)
jar_entry_uri(jar_path, entry_name) ==
    <<"jar:", path_to_uri(jar_path), "!/", EntryNames[entry_name].stem,
      EntryNames[entry_name].suffix>>

\* The position of `item` in a sorted sequence is after every element that
\* is not greater (a stable sort).
InsertSorted(sorted, item) ==
    SelectSeq(sorted, LAMBDA other : other <= item)
    \o <<item>>
    \o SelectSeq(sorted, LAMBDA other : other > item)

\* The sequence left in the order it has.
sort_by_key_unsorted(seq) == seq

\* sort_by(|a, b| path_key(a).cmp(&path_key(b))) and entry_names.sort()
RECURSIVE sort_by_key(_)
sort_by_key(seq) ==
    IF seq = <<>> THEN <<>>
    ELSE InsertSorted(sort_by_key(SubSeq(seq, 1, Len(seq) - 1)), seq[Len(seq)])

\* manifest_classpath: the archive cannot be opened, or the Class-Path
\* entries of its manifest.
manifest_classpath(path) ==
    IF files[path].kind # "jar" THEN Err ELSE Ok(files[path].class_path)

---------------------------------------------------------------------------
(* scan_inputs and expand_classpath.                                       *)

\* The three accumulators scan_path and its callees write to.
Collected(arts, count, recs) ==
    [artifacts |-> arts, class_count |-> count, classes |-> recs]

\* push_artifact that reads artifacts.len() after the push.
push_artifact_index_after_push(uri, parent_index, roles, arts) ==
    [index |-> Len(arts) + 1,
     artifacts |-> Append(arts, [uri |-> uri, parent_index |-> parent_index,
                                 roles |-> roles])]

\* push_artifact: the artifact is appended, its index is the length of the
\* list before.  parent_index and roles are <<>> for None.
push_artifact(uri, parent_index, roles, arts) ==
    [index |-> Len(arts),
     artifacts |-> Append(arts, [uri |-> uri, parent_index |-> parent_index,
                                 roles |-> roles])]

push_path_artifact(path, roles, parent_index, arts) ==
    push_artifact(path_to_uri(path), parent_index, roles, arts)

ClassRecord(name, artifact_index) ==
    [name |-> name, artifact_index |-> artifact_index]

scan_class_file(path, roles, acc) ==
    IF ~exists(path) THEN Err
    ELSE IF ~files[path].parses THEN Err
    ELSE LET pushed == push_path_artifact(path, roles, <<>>, acc.artifacts)
         IN  Ok(Collected(pushed.artifacts,
                          acc.class_count + 1,
                          Append(acc.classes,
                                 ClassRecord(PathNames[path].stem, pushed.index))))

\* The names of the archive's entries that end in ".class" and not in
\* "module-info.class", in archive order.
ClassEntryNames(path) ==
    LET kept == SelectSeq(files[path].entries,
                          LAMBDA entry :
                              /\ EntryNames[entry.name].suffix = ".class"
                              /\ EntryNames[entry.name].stem # "module-info")
    IN  [k \in 1..Len(kept) |-> kept[k].name]

\* archive.by_name(&name)
by_name(path, name) ==
    LET found == SelectSeq(files[path].entries, LAMBDA entry : entry.name = name)
    IN  found[1]

\* `for name in entry_names` of scan_jar_file, from the k-th name on.
RECURSIVE ScanEntries(_, _, _, _, _)
ScanEntries(path, jar_index, names, k, acc) ==
    IF k > Len(names) THEN Ok(acc)
    ELSE IF ~by_name(path, names[k]).parses THEN Err
    ELSE LET pushed == push_artifact(jar_entry_uri(path, names[k]),
                                     <<jar_index>>, <<>>, acc.artifacts)
         IN  ScanEntries(path, jar_index, names, k + 1,
                         Collected(pushed.artifacts,
                                   acc.class_count + 1,
                                   Append(acc.classes,
                                          ClassRecord(EntryNames[names[k]].stem,
                                                      pushed.index))))

scan_jar_file(path, roles, acc) ==
    IF files[path].kind # "jar" THEN Err
    ELSE LET jar == push_path_artifact(path, roles, <<>>, acc.artifacts)
         IN  ScanEntries(path, jar.index, sort_by_key(ClassEntryNames(path)), 1,
                         Collected(jar.artifacts, acc.class_count, acc.classes))

\* scan_path for a path that is not a directory (no path of the file system
\* is one).
\* scan_path that returns Ok with what was collected before when the scan
\* of the file fails.
scan_path_swallowing_errors(path, is_input, strict, acc) ==
    LET roles == IF is_input THEN <<"analysisTarget">> ELSE <<>>
        scanned == IF PathNames[path].extension = "class"
                   THEN scan_class_file(path, roles, acc)
                   ELSE scan_jar_file(path, roles, acc)
    IN  IF scanned.tag = "Err" THEN Ok(acc) ELSE scanned

scan_path(path, is_input, strict, acc) ==
    LET roles == IF is_input THEN <<"analysisTarget">> ELSE <<>>
    IN  IF PathNames[path].extension = "class"
        THEN scan_class_file(path, roles, acc)
        ELSE IF PathNames[path].extension = "jar"
        THEN scan_jar_file(path, roles, acc)
        ELSE IF strict THEN Err ELSE Ok(acc)

ScanFailed == [tag |-> "Err", output |-> <<>>]

\* Ok(ScanOutput { artifacts, class_count, classes })
ScanOutput(arts, count, recs) ==
    [tag |-> "Ok", output |-> <<Collected(arts, count, recs)>>]

\* scan_inputs is called with an input path and a classpath.
InitScan ==
    /\ CfgAtRest
    /\ RuleAtRest
    /\ files \in FileSystems
    /\ input \in InputPaths
    /\ \E n \in 0..MaxClasspath : classpath \in [1..n -> Paths]
    /\ scan_pc = "input"
    /\ artifacts = <<>>
    /\ class_count = 0
    /\ classes = <<>>
    /\ queue = <<>>
    /\ seen = {}
    /\ expanded = <<>>
    /\ entry_idx = 1
    /\ scan_result = ScanPending

\* `?` or bail!: scan_inputs returns the error.
ScanAbort ==
    /\ scan_pc' = "done"
    /\ scan_result' = ScanFailed

\* scan_path(input, true, true, ..)?
ScanInput ==
    /\ scan_pc = "input"
    /\ LET scanned == scan_path(input, TRUE, TRUE, Collected(artifacts, class_count, classes))
       IN  IF scanned.tag = "Err"
           THEN ScanAbort /\ UNCHANGED <<artifacts, class_count, classes>>
           ELSE /\ artifacts' = scanned.val.artifacts
                /\ class_count' = scanned.val.class_count
                /\ classes' = scanned.val.classes
                /\ scan_pc' = "classpath"
                /\ UNCHANGED scan_result
    /\ UNCHANGED <<files, input, classpath, queue, seen, expanded, entry_idx>>
    /\ UNCHANGED <<cfg_vars, rule_vars>>

\* The classpath is sorted and extended by the manifest of an input
\* archive; expand_classpath sorts its argument, fills the queue and
\* creates `seen` and `result`.
ExpandStart ==
    /\ scan_pc = "classpath"
    /\ LET referenced == IF is_jar_path(input) THEN manifest_classpath(input)
                         ELSE Ok(<<>>)
       IN  IF referenced.tag = "Err"
           THEN ScanAbort /\ UNCHANGED <<queue, seen, expanded>>
           ELSE /\ queue' = sort_by_key(sort_by_key(classpath) \o referenced.val)
                /\ seen' = {}
                /\ expanded' = <<>>
                /\ scan_pc' = "expand"
                /\ UNCHANGED scan_result
    /\ UNCHANGED <<files, input, classpath, artifacts, class_count, classes,
                   entry_idx>>
    /\ UNCHANGED <<cfg_vars, rule_vars>>

\* One iteration of `while let Some(entry) = queue.pop_front()`.
ExpandStep ==
    /\ scan_pc = "expand"
    /\ queue # <<>>
    /\ LET entry == Head(queue)
           key == path_key(entry)
       IN  IF key \in seen
           THEN /\ queue' = Tail(queue)
                /\ UNCHANGED <<seen, expanded, scan_pc, scan_result>>
           ELSE /\ seen' = seen \cup {key}
                /\ IF ~exists(entry)
                   THEN /\ ScanAbort
                        /\ queue' = Tail(queue)
                        /\ UNCHANGED expanded
                   ELSE /\ expanded' = Append(expanded, entry)
                        /\ IF is_jar_path(entry)
                           THEN LET referenced == manifest_classpath(entry)
                                IN  IF referenced.tag = "Err"
                                    THEN ScanAbort /\ queue' = Tail(queue)
                                    ELSE /\ queue' = Tail(queue)
                                                     \o sort_by_key(referenced.val)
                                         /\ UNCHANGED <<scan_pc, scan_result>>
                           ELSE /\ queue' = Tail(queue)
                                /\ UNCHANGED <<scan_pc, scan_result>>
    /\ UNCHANGED <<files, input, classpath, artifacts, class_count, classes,
                   entry_idx>>
    /\ UNCHANGED <<cfg_vars, rule_vars>>

\* The queue is empty: Ok(result), bound to `expanded` by scan_inputs.
ExpandReturn ==
    /\ scan_pc = "expand"
    /\ queue = <<>>
    /\ scan_pc' = "entries"
    /\ entry_idx' = 1
    /\ UNCHANGED <<files, input, classpath, artifacts, class_count, classes,
                   queue, seen, expanded, scan_result>>
    /\ UNCHANGED <<cfg_vars, rule_vars>>

\* One iteration of `for entry in expanded`.
ScanEntry ==
    /\ scan_pc = "entries"
    /\ entry_idx <= Len(expanded)
    /\ LET entry == expanded[entry_idx]
           scanned == scan_path(entry, FALSE, TRUE,
                                Collected(artifacts, class_count, classes))
       IN  IF entry = input
           THEN /\ entry_idx' = entry_idx + 1
                /\ UNCHANGED <<artifacts, class_count, classes, scan_pc, scan_result>>
           ELSE IF scanned.tag = "Err"
           THEN ScanAbort /\ UNCHANGED <<artifacts, class_count, classes, entry_idx>>
           ELSE /\ artifacts' = scanned.val.artifacts
                /\ class_count' = scanned.val.class_count
                /\ classes' = scanned.val.classes
                /\ entry_idx' = entry_idx + 1
                /\ UNCHANGED <<scan_pc, scan_result>>
    /\ UNCHANGED <<files, input, classpath, queue, seen, expanded>>
    /\ UNCHANGED <<cfg_vars, rule_vars>>

ScanReturn ==
    /\ scan_pc = "entries"
    /\ entry_idx > Len(expanded)
    /\ scan_result' = ScanOutput(artifacts, class_count, classes)
    /\ scan_pc' = "done"
    /\ UNCHANGED <<files, input, classpath, artifacts, class_count, classes,
                   queue, seen, expanded, entry_idx>>
    /\ UNCHANGED <<cfg_vars, rule_vars>>

NextScan ==
    ScanInput \/ ExpandStart \/ ExpandStep \/ ExpandReturn \/ ScanEntry \/ ScanReturn

SpecScan == InitScan /\ [][NextScan]_vars

\* The call runs on one thread that executes statement after statement:
\* a step that can be taken is taken.
SpecScanFair == SpecScan /\ WF_vars(NextScan)

---------------------------------------------------------------------------
(* Properties.                                                             *)

ReturnedOk == pc = "done" /\ result.tag = "Ok"

\* The graph handed to the caller (only when ReturnedOk).
Graph == result.graph[1]

BlockStarts(bs) == {bs[k].start_offset : k \in 1..Len(bs)}

LastInst(block) == block.instructions[Len(block.instructions)]

EdgesFrom(es, from) == SelectSeq(es, LAMBDA e : e.from = from)

\* C1: when build_cfg returns Ok for a non-empty code buffer, the blocks
\* are sorted strictly ascending by start_offset and partition
\* [0, code_length): the first block starts at 0, every block ends where
\* the next one starts, the last block ends at code_length, and no block
\* is empty.
C1_BlocksPartitionCode ==
    (ReturnedOk /\ Len(code) > 0) =>
        LET bs == Graph.blocks
        IN  /\ Len(bs) >= 1
            /\ bs[1].start_offset = 0
            /\ bs[Len(bs)].end_offset = Len(code)
            /\ \A k \in 1..Len(bs) : bs[k].start_offset < bs[k].end_offset
            /\ \A k \in 1..(Len(bs) - 1) :
                 /\ bs[k].end_offset = bs[k + 1].start_offset
                 /\ bs[k].start_offset < bs[k + 1].start_offset

\* C1 witness: a returned graph of at least three blocks, built from
\* leaders of which at least one lay past the end of the code.
C1_Witness ==
    /\ ReturnedOk
    /\ Len(Graph.blocks) >= 3
    /\ \E offset \in leaders : offset >= Len(code)

\* C2: in every returned graph, every edge's `from` and every edge's `to`
\* is the start_offset of some block of the graph; a target that is not a
\* block start produces no edge.
C2_EdgeEndpointsAreBlockStarts ==
    ReturnedOk =>
        \A k \in 1..Len(Graph.edges) :
            /\ Graph.edges[k].from \in BlockStarts(Graph.blocks)
            /\ Graph.edges[k].to \in BlockStarts(Graph.blocks)

C4_UnconditionalHasOnlyBranchEdges ==
    ReturnedOk =>
        \A b \in 1..Len(Graph.blocks) :
            LET block == Graph.blocks[b]
            IN  (/\ block.instructions # <<>>
                 /\ LastInst(block).opcode \in {GOTO, GOTO_W, JSR, JSR_W})
                => \A k \in 1..Len(Graph.edges) :
                       Graph.edges[k].from = block.start_offset
                       => Graph.edges[k].kind = "Branch"

\* C4 witness: a block ending in goto that is followed by another block
\* (a fall-through would have a destination) and has an outgoing edge.
C4_Witness ==
    /\ ReturnedOk
    /\ \E b \in 1..(Len(Graph.blocks) - 1) :
         LET block == Graph.blocks[b]
         IN  /\ block.instructions # <<>>
             /\ LastInst(block).opcode = GOTO
             /\ EdgesFrom(Graph.edges, block.start_offset) # <<>>

\* The tableswitch at `offset` has a readable header with high < low.
HighBelowLow(c, offset) ==
    LET base == offset + 1 + padding(offset)
    IN  /\ offset < Len(c)
        /\ Byte(c, offset) = TABLESWITCH
        /\ read_i32(c, base).tag = "Ok"
        /\ read_i32(c, base + 4).tag = "Ok"
        /\ read_i32(c, base + 8).tag = "Ok"
        /\ read_i32(c, base + 8).val < read_i32(c, base + 4).val

\* C5: resolving the targets of a tableswitch whose header has high < low
\* returns a decode error, never a target list: whenever the leader pass
\* has gone on past such an instruction, its resolution was an error.
C5_HighBelowLowIsDecodeError ==
    \A k \in 1..Len(instructions) :
        (/\ HighBelowLow(code, instructions[k].offset)
         /\ pc = "leaders"
         /\ idx > k)
        => tableswitch_targets(code, instructions[k].offset).tag = "Err"

\* Resolving the targets of some instruction of the input reads past the
\* end of the code buffer.
ReadsPastEnd ==
    \E k \in 1..Len(instructions) :
        branch_targets(code, instructions[k].offset).tag = "Err"

\* C6: build_cfg either fails or returns a complete graph: a read past the
\* end of the code makes it return an error and no graph, it never ends
\* abnormally, and a returned graph holds every block and the edges of
\* every block.
C6_FailsOrReturnsCompleteGraph ==
    pc = "done" =>
        /\ result.tag \in {"Ok", "Err"}
        /\ ReadsPastEnd => result.tag = "Err"
        /\ result.tag = "Err" => result.graph = <<>>
        /\ result.tag = "Ok" =>
             /\ idx > Len(blocks)
             /\ result.graph = << [blocks |-> blocks, edges |-> edges] >>

\* The block shares at least one offset with [start_pc, end_pc).
InsideRange(block, handler) ==
    /\ block.start_offset < handler.end_pc
    /\ block.end_offset > handler.start_pc

\* C7: for every exception handler of the method (with a handler_pc inside
\* the code), the returned graph has an Exception edge from every block
\* wholly or partially inside [start_pc, end_pc) to the block starting at
\* handler_pc.
C7_ExceptionEdgesPresent ==
    ReturnedOk =>
        \A h \in 1..Len(exception_handlers) :
            \A b \in 1..Len(Graph.blocks) :
                (/\ exception_handlers[h].handler_pc \in BlockStarts(Graph.blocks)
                 /\ InsideRange(Graph.blocks[b], exception_handlers[h]))
                => \E k \in 1..Len(Graph.edges) :
                       Graph.edges[k] = Edge(Graph.blocks[b].start_offset,
                                             exception_handlers[h].handler_pc,
                                             "Exception")

\* The leaders the instruction at `inst` contributes: its targets and the
\* offset following it when it is a branch or switch, the offset following
\* it when it is an exit instruction.
ContributedLeaders(inst) ==
    LET targets == branch_targets(code, inst.offset)
        next == inst.offset + opcode_length(code, inst.offset).val
    IN  (IF targets.tag = "Some" THEN Range(targets.val) \cup {next} ELSE {})
        \cup (IF inst.opcode \in {IRETURN, LRETURN, FRETURN, DRETURN, ARETURN,
                                  RETURN, ATHROW}
              THEN {next} ELSE {})

LeaderSet ==
    {0}
    \cup {exception_handlers[h].handler_pc : h \in 1..Len(exception_handlers)}
    \cup UNION {ContributedLeaders(instructions[k]) : k \in 1..Len(instructions)}

\* C8: the block start offsets of a returned graph are exactly the leaders
\* below code_length (offset 0, the handler pcs, every target of every
\* instruction, the offset after every branch, switch and exit
\* instruction), each starting one block.
C8_BlockStartsAreTheLeaders ==
    ReturnedOk =>
        /\ BlockStarts(Graph.blocks) = {offset \in LeaderSet : offset < Len(code)}
        /\ Cardinality(BlockStarts(Graph.blocks)) = Len(Graph.blocks)

\* C8 witness: a returned graph where a handler pc, a target of a branch
\* that does not end the code and the offset after an unconditional branch
\* all start blocks, and a leader past the end of the code was discarded.
C8_Witness ==
    /\ ReturnedOk
    /\ \E h \in 1..Len(exception_handlers) :
         exception_handlers[h].handler_pc \in BlockStarts(Graph.blocks)
    /\ \E k \in 1..Len(instructions) :
         /\ instructions[k].opcode = GOTO
         /\ instructions[k].offset + 3 \in BlockStarts(Graph.blocks)
    /\ \E offset \in LeaderSet : offset >= Len(code)

\* Number of (block, position) places of the graph holding the instruction.
RECURSIVE Places(_, _, _)
Places(bs, b, inst) ==
    IF b > Len(bs) THEN 0
    ELSE Len(SelectSeq(bs[b].instructions, LAMBDA i : i = inst))
         + Places(bs, b + 1, inst)

\* C9: on success for non-empty code, every instruction of the input is in
\* exactly one block, the one whose range [start_offset, end_offset) holds
\* its offset; a block holds only input instructions, in offset order.
C9_EveryInstructionInOneBlock ==
    (ReturnedOk /\ Len(code) > 0) =>
        LET bs == Graph.blocks
        IN  /\ \A k \in 1..Len(instructions) :
                 /\ Places(bs, 1, instructions[k]) = 1
                 /\ \A b \in 1..Len(bs) :
                      (instructions[k] \in Range(bs[b].instructions))
                      <=> (/\ bs[b].start_offset <= instructions[k].offset
                           /\ instructions[k].offset < bs[b].end_offset)
            /\ \A b \in 1..Len(bs) :
                 /\ Range(bs[b].instructions) \subseteq Range(instructions)
                 /\ \A p \in 1..(Len(bs[b].instructions) - 1) :
                      bs[b].instructions[p].offset < bs[b].instructions[p + 1].offset

\* C9 witness: a returned graph of several blocks, one holding at least two
\* instructions and one starting at an instruction that is not the first.
C9_Witness ==
    /\ ReturnedOk
    /\ Len(Graph.blocks) >= 2
    /\ \E b \in 1..Len(Graph.blocks) : Len(Graph.blocks[b].instructions) >= 2
    /\ \E k \in 2..Len(instructions) :
         instructions[k].offset \in BlockStarts(Graph.blocks)

\* The block ends in a branch or switch that is not goto/goto_w/jsr/jsr_w.
EndsInConditional(block) ==
    /\ block.instructions # <<>>
    /\ branch_targets(code, LastInst(block).offset).tag = "Some"
    /\ LastInst(block).opcode \notin {GOTO, GOTO_W, JSR, JSR_W}

\* One Branch edge per resolved target of the block's last instruction.
BranchEdgesOfTargets(block) ==
    LET targets == branch_targets(code, LastInst(block).offset).val
    IN  [k \in 1..Len(targets) |->
            [from |-> block.start_offset, to |-> targets[k], kind |-> "Branch"]]

FallThroughToEnd(block) ==
    [from |-> block.start_offset, to |-> block.end_offset, kind |-> "FallThrough"]

\* C10 as stated: a block ending in a conditional branch or switch has one
\* Branch edge per resolved target and, in addition, one FallThrough edge
\* to the block starting at its end_offset.
C10_BranchEdgesAndFallThrough ==
    ReturnedOk =>
        \A b \in 1..Len(Graph.blocks) :
            LET block == Graph.blocks[b]
            IN  EndsInConditional(block)
                => EdgesFrom(Graph.edges, block.start_offset)
                   = BranchEdgesOfTargets(block) \o <<FallThroughToEnd(block)>>

\* C10 amended: a block ending in a conditional branch or switch has one
\* Branch edge per resolved target, followed by one FallThrough edge to the
\* block starting at its end_offset when there is such a block; when there
\* is none (the block ends the code) it has no FallThrough edge.
C10_BranchEdgesAndFallThroughIfNextBlock ==
    ReturnedOk =>
        \A b \in 1..Len(Graph.blocks) :
            LET block == Graph.blocks[b]
            IN  EndsInConditional(block)
                => EdgesFrom(Graph.edges, block.start_offset)
                   = BranchEdgesOfTargets(block)
                     \o (IF block.end_offset \in BlockStarts(Graph.blocks)
                         THEN <<FallThroughToEnd(block)>>
                         ELSE <<>>)

\* C10 witness: ifeq +4, two filler bytes, return; block 0 has the edges
\* Branch to 4 and FallThrough to 3.
C10_Witness ==
    /\ ReturnedOk
    /\ code = <<153, 0, 4, 0, 0, 177>>
    /\ EdgesFrom(Graph.edges, 0)
       = << [from |-> 0, to |-> 4, kind |-> "Branch"],
            [from |-> 0, to |-> 3, kind |-> "FallThrough"] >>

\* The block ends in an instruction without explicit targets that is not an
\* exit instruction.
EndsInPlain(block) ==
    /\ block.instructions # <<>>
    /\ branch_targets(code, LastInst(block).offset).tag = "None"
    /\ LastInst(block).opcode \notin {IRETURN, LRETURN, FRETURN, DRETURN,
                                       ARETURN, RETURN, ATHROW}

\* C11 as stated: a block whose last instruction has no explicit targets
\* and is not an exit instruction has exactly one outgoing edge, the
\* FallThrough edge to the block starting at its end_offset.
C11_PlainBlockFallsThrough ==
    ReturnedOk =>
        \A b \in 1..Len(Graph.blocks) :
            LET block == Graph.blocks[b]
            IN  EndsInPlain(block)
                => EdgesFrom(Graph.edges, block.start_offset)
                   = <<FallThroughToEnd(block)>>

\* C11 amended: such a block has exactly one outgoing edge, the FallThrough
\* edge to the block starting at its end_offset, when there is such a
\* block; when there is none (the block ends the code) it has no outgoing
\* edge.
C11_PlainBlockFallsThroughIfNextBlock ==
    ReturnedOk =>
        \A b \in 1..Len(Graph.blocks) :
            LET block == Graph.blocks[b]
            IN  EndsInPlain(block)
                => EdgesFrom(Graph.edges, block.start_offset)
                   = (IF block.end_offset \in BlockStarts(Graph.blocks)
                      THEN <<FallThroughToEnd(block)>>
                      ELSE <<>>)

\* C11 witness: a block ending in nop that is followed by another block
\* and has the FallThrough edge to it.
C11_Witness ==
    /\ ReturnedOk
    /\ \E b \in 1..(Len(Graph.blocks) - 1) :
         LET block == Graph.blocks[b]
         IN  /\ EndsInPlain(block)
             /\ LastInst(block).opcode = NOP
             /\ EdgesFrom(Graph.edges, block.start_offset)
                = <<FallThroughToEnd(block)>>

\* The block ends in one of the seven exit instructions.
EndsInExit(block) ==
    /\ block.instructions # <<>>
    /\ LastInst(block).opcode \in {IRETURN, LRETURN, FRETURN, DRETURN,
                                    ARETURN, RETURN, ATHROW}

\* C12: the returned graph has no edge whose `from` is the start_offset of
\* a block whose last instruction is ireturn, lreturn, freturn, dreturn,
\* areturn, return or athrow.
C12_ExitBlockHasNoOutgoingEdge ==
    ReturnedOk =>
        \A b \in 1..Len(Graph.blocks) :
            EndsInExit(Graph.blocks[b])
            => \A k \in 1..Len(Graph.edges) :
                   Graph.edges[k].from # Graph.blocks[b].start_offset

\* C12 witness: a block ending in athrow and a block ending in return, each
\* followed by another block, in a graph that has edges.
C12_Witness ==
    /\ ReturnedOk
    /\ Graph.edges # <<>>
    /\ \E b \in 1..(Len(Graph.blocks) - 1) :
         EndsInExit(Graph.blocks[b]) /\ LastInst(Graph.blocks[b]).opcode = ATHROW
    /\ \E b \in 1..(Len(Graph.blocks) - 1) :
         EndsInExit(Graph.blocks[b]) /\ LastInst(Graph.blocks[b]).opcode = RETURN

\* C13: for the code [0xA7, 0x00, 0x03, 0xB1] (goto +3, return) without
\* handlers build_cfg returns the two blocks [0, 3) and [3, 4) and the one
\* edge Branch 0 -> 3: no FallThrough edge leaves block 0 and no edge
\* leaves block 3.
C13_GotoScenario ==
    (/\ pc = "done"
     /\ code = <<167, 0, 3, 177>>
     /\ exception_handlers = <<>>)
    => /\ result.tag = "Ok"
       /\ Len(Graph.blocks) = 2
       /\ Graph.blocks[1].start_offset = 0 /\ Graph.blocks[1].end_offset = 3
       /\ Graph.blocks[2].start_offset = 3 /\ Graph.blocks[2].end_offset = 4
       /\ Graph.edges = << [from |-> 0, to |-> 3, kind |-> "Branch"] >>
       /\ EdgesFrom(Graph.edges, 3) = <<>>

\* C13 witness: build_cfg has returned for the goto scenario.
C13_Witness ==
    /\ ReturnedOk
    /\ code = <<167, 0, 3, 177>>
    /\ exception_handlers = <<>>
    /\ Len(Graph.edges) = 1

\* offset + operand as an offset of the method: the sum in the integers,
\* reduced to the 16-bit offset width (the sum itself when it is in
\* 0..65535).
OffsetPlus(offset, operand) ==
    ((offset % U16Modulus) + (operand % U16Modulus)) % U16Modulus

\* The signed 32-bit big-endian word at `at`.
WordAt(at) == read_i32(code, at).val

\* Start of the switch header: the opcode byte and the padding that aligns
\* the header to 4 skipped.
HeaderAt(offset) == offset + 1 + ((4 - ((offset + 1) % 4)) % 4)

\* The instruction is a tableswitch whose header has low <= high.
IsTableSwitchLowToHigh(inst) ==
    /\ inst.opcode = TABLESWITCH
    /\ read_i32(code, HeaderAt(inst.offset) + 8).tag = "Ok"
    /\ WordAt(HeaderAt(inst.offset) + 4) <= WordAt(HeaderAt(inst.offset) + 8)

\* Default target first, then the case targets in ascending index order.
TableSwitchExpected(offset) ==
    LET base == HeaderAt(offset)
        cases == WordAt(base + 8) - WordAt(base + 4) + 1
    IN  <<OffsetPlus(offset, WordAt(base))>>
        \o [k \in 1..cases |->
               OffsetPlus(offset, WordAt(base + 12 + 4 * (k - 1)))]

BranchEdgesTo(block, targets) ==
    [k \in 1..Len(targets) |->
        [from |-> block.start_offset, to |-> targets[k], kind |-> "Branch"]]

BranchEdgesFrom(es, from) ==
    SelectSeq(es, LAMBDA e : e.from = from /\ e.kind = "Branch")

\* C14: in a returned graph, the target list resolved for a tableswitch at
\* offset o whose header (after (4 - ((o + 1) mod 4)) mod 4 padding bytes)
\* has low <= high holds exactly high - low + 2 entries: o + default first,
\* then o + case_offset for each case in ascending index order; the Branch
\* edges of its block go to these targets in this order.
C14_TableSwitchTargets ==
    ReturnedOk =>
        /\ \A k \in 1..Len(instructions) :
             IsTableSwitchLowToHigh(instructions[k])
             => LET offset == instructions[k].offset
                    base == HeaderAt(offset)
                    targets == tableswitch_targets(code, offset)
                IN  /\ targets.tag = "Ok"
                    /\ Len(targets.val)
                       = WordAt(base + 8) - WordAt(base + 4) + 2
                    /\ targets.val = TableSwitchExpected(offset)
        /\ \A b \in 1..Len(Graph.blocks) :
             LET block == Graph.blocks[b]
             IN  (/\ block.instructions # <<>>
                  /\ IsTableSwitchLowToHigh(LastInst(block)))
                 => BranchEdgesFrom(Graph.edges, block.start_offset)
                    = BranchEdgesTo(block, TableSwitchExpected(LastInst(block).offset))

\* C14 witness: a tableswitch at offset 0 with low = 0 and high = 1, whose
\* header starts after 3 padding bytes, gave three Branch edges; and a
\* tableswitch with low <= high at an offset that needs another padding.
C14_Witness ==
    /\ ReturnedOk
    /\ Len(code) >= 24
    /\ code[1] = TABLESWITCH
    /\ HeaderAt(0) = 4
    /\ WordAt(8) = 0 /\ WordAt(12) = 1
    /\ Len(BranchEdgesFrom(Graph.edges, 0)) = 3
    /\ \E k \in 2..Len(instructions) :
         /\ IsTableSwitchLowToHigh(instructions[k])
         /\ HeaderAt(instructions[k].offset) # instructions[k].offset + 4

\* The instruction is a lookupswitch with a readable pair count >= 0.
IsLookupSwitch(inst) ==
    /\ inst.opcode = LOOKUPSWITCH
    /\ read_i32(code, HeaderAt(inst.offset) + 4).tag = "Ok"
    /\ WordAt(HeaderAt(inst.offset) + 4) >= 0

\* Default target first, then the target of each pair in declaration
\* order; the match word of a pair (its first word) is not used.
LookupSwitchExpected(offset) ==
    LET base == HeaderAt(offset)
    IN  <<OffsetPlus(offset, WordAt(base))>>
        \o [k \in 1..WordAt(base + 4) |->
               OffsetPlus(offset, WordAt(base + 8 + 8 * (k - 1) + 4))]

\* C15: in a returned graph, the target list resolved for a lookupswitch at
\* offset o with n >= 0 pairs holds exactly n + 1 entries: o + default
\* first, then o + offset_i for each pair in declaration order, whatever
\* the match values are; the Branch edges of its block go to these targets
\* in this order.
C15_LookupSwitchTargets ==
    ReturnedOk =>
        /\ \A k \in 1..Len(instructions) :
             IsLookupSwitch(instructions[k])
             => LET offset == instructions[k].offset
                    targets == lookupswitch_targets(code, offset)
                IN  /\ targets.tag = "Ok"
                    /\ Len(targets.val) = WordAt(HeaderAt(offset) + 4) + 1
                    /\ targets.val = LookupSwitchExpected(offset)
        /\ \A b \in 1..Len(Graph.blocks) :
             LET block == Graph.blocks[b]
             IN  (/\ block.instructions # <<>>
                  /\ IsLookupSwitch(LastInst(block)))
                 => BranchEdgesFrom(Graph.edges, block.start_offset)
                    = BranchEdgesTo(block, LookupSwitchExpected(LastInst(block).offset))

\* C15 witness: a lookupswitch with two pairs whose match values descend
\* (9, then 3) gave three Branch edges, the targets of the pairs in
\* declaration order and not in match order.
C15_Witness ==
    /\ ReturnedOk
    /\ \E b \in 1..Len(Graph.blocks) :
         LET block == Graph.blocks[b]
             base == HeaderAt(LastInst(block).offset)
         IN  /\ block.instructions # <<>>
             /\ IsLookupSwitch(LastInst(block))
             /\ WordAt(base + 4) = 2
             /\ WordAt(base + 8) > WordAt(base + 16)
             /\ Len(BranchEdgesFrom(Graph.edges, block.start_offset)) = 3
             /\ BranchEdgesFrom(Graph.edges, block.start_offset)[2].to
                = OffsetPlus(LastInst(block).offset, WordAt(base + 12))
             /\ BranchEdgesFrom(Graph.edges, block.start_offset)[2].to
                # BranchEdgesFrom(Graph.edges, block.start_offset)[3].to

\* The instruction is a simple branch or an extended jump whose operand
\* lies inside the code.
IsJump(inst) ==
    \/ IsShortBranch(inst.opcode) /\ read_i16(code, inst.offset + 1).tag = "Ok"
    \/ IsWideBranch(inst.opcode) /\ read_i32(code, inst.offset + 1).tag = "Ok"

\* The signed operand of a simple branch (2 bytes) or extended jump
\* (4 bytes).
JumpOperand(inst) ==
    IF IsShortBranch(inst.opcode)
    THEN read_i16(code, inst.offset + 1).val
    ELSE read_i32(code, inst.offset + 1).val

\* The leader pass has resolved the targets of instruction k: it went on
\* to the next instruction, or the call ended in it abnormally.
Resolved(k) ==
    \/ pc = "leaders" /\ idx > k
    \/ pc = "done" /\ result.tag = "Panic" /\ idx = k

\* C16: for every simple branch and every extended jump at offset o the
\* sum o + signed_operand is computed without overflow or wraparound of
\* the intermediate, and the single resolved target is exactly
\* o + operand whenever that lies in 0..65535 (backward branches
\* included).
C16_JumpTargetInWiderIntermediate ==
    \A k \in 1..Len(instructions) :
        (IsJump(instructions[k]) /\ Resolved(k))
        => LET offset == instructions[k].offset
               operand == JumpOperand(instructions[k])
           IN  /\ ~AddOverflows(offset, operand)
               /\ (0 <= offset + operand /\ offset + operand < U16Modulus)
                  => branch_targets(code, offset)
                     = SomeTargets(<<offset + operand>>)

\* The resolved target list of the block's last instruction (empty when it
\* has no explicit targets).
TargetListOf(block) ==
    LET targets == branch_targets(code, LastInst(block).offset)
    IN  IF targets.tag = "Some" THEN targets.val ELSE <<>>

\* C17: in a returned graph the edges are listed by ascending `from`
\* (block order), and the edges of one block are its Branch edges in the
\* order of the resolved target list followed by the FallThrough edge, if
\* it has one.
C17_EdgesInConstructionOrder ==
    ReturnedOk =>
        /\ \A i \in 1..Len(Graph.edges) : \A j \in i..Len(Graph.edges) :
             Graph.edges[i].from <= Graph.edges[j].from
        /\ \A b \in 1..Len(Graph.blocks) :
             LET block == Graph.blocks[b]
                 out == EdgesFrom(Graph.edges, block.start_offset)
             IN  IF block.instructions = <<>> THEN out = <<>>
                 ELSE LET n == Len(TargetListOf(block))
                      IN  /\ Len(out) \in {n, n + 1}
                          /\ SubSeq(out, 1, n)
                             = BranchEdgesTo(block, TargetListOf(block))
                          /\ Len(out) = n + 1
                             => out[n + 1] = FallThroughToEnd(block)

\* C17 witness: a block with three Branch edges followed by a FallThrough
\* edge, and a later block with edges of its own.
C17_Witness ==
    /\ ReturnedOk
    /\ \E b \in 1..Len(Graph.blocks) :
         LET out == EdgesFrom(Graph.edges, Graph.blocks[b].start_offset)
         IN  /\ Len(out) = 4
             /\ out[3].kind = "Branch"
             /\ out[1].to # out[2].to
             /\ out[4].kind = "FallThrough"
             /\ \E later \in (b + 1)..Len(Graph.blocks) :
                  EdgesFrom(Graph.edges, Graph.blocks[later].start_offset) # <<>>

RECURSIVE Flatten(_)
Flatten(seqs) == IF seqs = <<>> THEN <<>> ELSE Head(seqs) \o Flatten(Tail(seqs))

\* Every call site of the caller's context, in class, method and call
\* order, with the class and method it is in.
CallSitesInOrder ==
    Flatten([c \in 1..Len(given) |->
        Flatten([m \in 1..Len(given[c].methods) |->
            [k \in 1..Len(given[c].methods[m].calls) |->
                [class |-> given[c].name,
                 method |-> given[c].methods[m].name,
                 descriptor |-> given[c].methods[m].descriptor,
                 owner |-> given[c].methods[m].calls[k].owner,
                 name |-> given[c].methods[m].calls[k].name]]])])

\* The call site is one of the six listed insecure calls.
IsListedInsecure(site) ==
    \/ site.owner = "java/lang/Runtime" /\ site.name = "exec"
    \/ site.owner = "java/lang/ProcessBuilder" /\ site.name = "<init>"
    \/ site.owner = "java/lang/ProcessBuilder" /\ site.name = "start"
    \/ site.owner = "java/lang/reflect/Method" /\ site.name = "invoke"
    \/ site.owner = "java/lang/reflect/Constructor" /\ site.name = "newInstance"
    \/ site.owner = "java/lang/Class" /\ site.name = "forName"

\* C18: InsecureApiRule.run returns exactly one finding per call site of
\* the context whose (owner, name) is one of the six listed pairs, in
\* class, method and call order, each naming the call and the method it is
\* in, and no finding for any other call; the caller's context is left as
\* it was.
C18_OneFindingPerInsecureCall ==
    rule_pc = "done" =>
        LET listed == SelectSeq(CallSitesInOrder, IsListedInsecure)
        IN  /\ Len(results) = Len(listed)
            /\ \A k \in 1..Len(listed) :
                 /\ results[k].message
                    = <<"Insecure API usage: ", listed[k].owner, ".", listed[k].name>>
                 /\ results[k].locations
                    = << [name |-> <<listed[k].class, ".", listed[k].method,
                                     listed[k].descriptor>>,
                          kind |-> "function"] >>
            /\ context = given

\* C18 witness: the rule returned two findings from different classes for
\* different calls.
C18_Witness ==
    /\ rule_pc = "done"
    /\ Len(results) = 2
    /\ results[1].locations # results[2].locations
    /\ results[1].locations[1].name[1] = ClassNames[1]
    /\ results[2].locations[1].name[1] = ClassNames[2]
    /\ results[1].message # results[2].message

ScanDone == scan_pc = "done"

\* The classpath entries handed to expand_classpath: the classpath and,
\* for an input archive, the Class-Path entries of its manifest.
InitialEntries ==
    Range(classpath)
    \cup (IF PathNames[input].extension = "jar" /\ files[input].kind = "jar"
          THEN Range(files[input].class_path) ELSE {})

\* The set closed under "the Class-Path entries of an archive in the set".
RECURSIVE ManifestClosure(_)
ManifestClosure(set) ==
    LET more == set \cup UNION { Range(files[path].class_path) :
                                   path \in { q \in set : files[q].kind = "jar" } }
    IN  IF more = set THEN set ELSE ManifestClosure(more)

\* The classpath entries reached directly or through manifests.
ReachedEntries == ManifestClosure(InitialEntries)

\* The archives scan_inputs scans: the input and the reached entries.
ScannedJars == { path \in ReachedEntries \cup {input} : files[path].kind = "jar" }

UnparsableInputClass == files[input].kind = "class" /\ ~files[input].parses

\* An entry of the archive named *.class that cannot be parsed.
HasUnparsableClassEntry(path) ==
    \E k \in 1..Len(files[path].entries) :
        /\ EntryNames[files[path].entries[k].name].suffix = ".class"
        /\ ~files[path].entries[k].parses

\* The same, entries named module-info.class left aside.
HasUnparsableScannedEntry(path) ==
    \E k \in 1..Len(files[path].entries) :
        /\ EntryNames[files[path].entries[k].name].suffix = ".class"
        /\ EntryNames[files[path].entries[k].name].stem # "module-info"
        /\ ~files[path].entries[k].parses

MissingReachedEntry == \E path \in ReachedEntries : files[path].kind = "missing"

\* C19 as stated: scan_inputs returns an error and no ScanOutput when the
\* input class file or any class entry of a scanned archive cannot be
\* parsed, or when a classpath entry reached directly or through manifests
\* does not exist; an error carries none of the artifacts and classes.
C19_FailsAsAWhole ==
    ScanDone =>
        /\ (\/ UnparsableInputClass
            \/ \E path \in ScannedJars : HasUnparsableClassEntry(path)
            \/ MissingReachedEntry)
           => scan_result = [tag |-> "Err", output |-> <<>>]
        /\ scan_result.tag = "Err" => scan_result.output = <<>>

\* C19 amended: the class entries of an archive that count are those the
\* scan reads, the entries named *.class other than module-info.class.
C19_FailsAsAWholeButModuleInfo ==
    ScanDone =>
        /\ (\/ UnparsableInputClass
            \/ \E path \in ScannedJars : HasUnparsableScannedEntry(path)
            \/ MissingReachedEntry)
           => scan_result = [tag |-> "Err", output |-> <<>>]
        /\ scan_result.tag = "Err" => scan_result.output = <<>>

\* C19 witness: the scan failed in an archive reached through the manifest
\* of the input archive, at an entry that cannot be parsed, after artifacts
\* and classes of the input had been collected and with every reached
\* entry existing.
C19_Witness ==
    /\ ScanDone
    /\ scan_result.tag = "Err"
    /\ classpath = <<>>
    /\ ~MissingReachedEntry
    /\ ~HasUnparsableScannedEntry(input)
    /\ \E path \in ScannedJars : HasUnparsableScannedEntry(path)
    /\ Len(artifacts) >= 2
    /\ classes # <<>>

\* The sequence without the elements of `visited` and without repetitions,
\* first occurrences kept.
RECURSIVE KeepFirst(_, _)
KeepFirst(seq, visited) ==
    IF seq = <<>> THEN <<>>
    ELSE IF Head(seq) \in visited THEN KeepFirst(Tail(seq), visited)
    ELSE <<Head(seq)>> \o KeepFirst(Tail(seq), visited \cup {Head(seq)})

\* Breadth-first order, level by level: the entries of a level not visited
\* before, then the next level, which lists for each of them in turn the
\* Class-Path entries of its manifest sorted by path.  Entries that do not
\* exist are left out and have no manifest.
RECURSIVE BreadthFirst(_, _)
BreadthFirst(level, visited) ==
    LET fresh == KeepFirst(SelectSeq(level, LAMBDA path : files[path].kind # "missing"),
                           visited)
        below == Flatten([k \in 1..Len(fresh) |->
                            IF files[fresh[k]].kind = "jar"
                            THEN SortedSeq(Range(files[fresh[k]].class_path))
                            ELSE <<>>])
    IN  IF fresh = <<>> THEN <<>>
        ELSE fresh \o BreadthFirst(below, visited \cup Range(fresh))

\* Every existing entry reachable from the initial list, once, in
\* breadth-first order.
ExistingReachableInOrder == BreadthFirst(SortedSeq(InitialEntries), {})

NoRepetition(seq) ==
    \A i \in 1..Len(seq) : \A j \in 1..Len(seq) : seq[i] = seq[j] => i = j

\* expand_classpath has returned Ok(result) to scan_inputs.
ExpandReturnedOk == scan_pc = "entries"

ArtifactAt(index) == artifacts[index + 1]

ValidIndex(index) == 0 <= index /\ index < Len(artifacts)

\* The artifact is that of an archive entry: it has a parent.
IsEntryArtifact(artifact) == artifact.parent_index # <<>>

\* The record's artifact is that of the class file or archive entry the
\* record's class was parsed from.
RecordPointsAtItsSource(record) ==
    /\ ValidIndex(record.artifact_index)
    /\ LET artifact == ArtifactAt(record.artifact_index)
       IN  IF IsEntryArtifact(artifact)
           THEN /\ artifact.uri[1] = "jar:"
                /\ artifact.uri[4] = record.name
                /\ artifact.uri[5] = ".class"
           ELSE artifact.uri = <<record.name, ".", "class">>

\* The parent of the entry artifact at `index` is the artifact of the
\* archive named in the entry's uri, and precedes it.
ParentIsEnclosingJar(index) ==
    LET artifact == ArtifactAt(index)
        parent == artifact.parent_index[1]
    IN  /\ ValidIndex(parent)
        /\ parent < index
        /\ ~IsEntryArtifact(ArtifactAt(parent))
        /\ ArtifactAt(parent).uri = artifact.uri[2]
        /\ ArtifactAt(parent).uri[3] = "jar"

\* C21: at every point of a scan_inputs run the artifact indices are stable
\* and valid: artifacts are only appended (an artifact stays at the index
\* push_artifact returned for it), every ClassRecord.artifact_index is the
\* index of the artifact of the class file or archive entry the record was
\* parsed from, every archive-entry artifact's parent_index is the smaller
\* index of its enclosing archive's artifact, and class_count is the number
\* of ClassRecords.
C21_ArtifactIndicesStableAndValid ==
    /\ [](/\ \A k \in 1..Len(classes) : RecordPointsAtItsSource(classes[k])
          /\ \A k \in 1..Len(classes) : \A other \in 1..Len(classes) :
               classes[k].artifact_index = classes[other].artifact_index
               => k = other
          /\ \A index \in 0..(Len(artifacts) - 1) :
               IsEntryArtifact(ArtifactAt(index)) => ParentIsEnclosingJar(index)
          /\ class_count = Len(classes))
    /\ [][/\ Len(artifacts') >= Len(artifacts)
          /\ SubSeq(artifacts', 1, Len(artifacts)) = artifacts
          /\ Len(classes') >= Len(classes)
          /\ SubSeq(classes', 1, Len(classes)) = classes]_vars

\* C21 witness: a returned scan whose artifact list starts with the input
\* class file and holds an archive with two entries, read in another order
\* than the archive lists them, and a second archive after it.
C21_Witness ==
    /\ ScanDone
    /\ scan_result.tag = "Ok"
    /\ input = 4
    /\ Len(artifacts) >= 6
    /\ Len(classes) >= 4
    /\ \E path \in Paths :
         /\ ArtifactAt(1).uri = path_to_uri(path)
         /\ Len(files[path].entries) = 2
         /\ files[path].entries[1].name > files[path].entries[2].name
    /\ \E index \in 2..(Len(artifacts) - 2) :
         /\ IsEntryArtifact(ArtifactAt(index))
         /\ IsEntryArtifact(ArtifactAt(index + 1))
         /\ ArtifactAt(index).parent_index = <<1>>
         /\ ArtifactAt(index + 1).parent_index = <<1>>
    /\ \E index \in 4..(Len(artifacts) - 1) :
         /\ IsEntryArtifact(ArtifactAt(index))
         /\ ArtifactAt(index).parent_index[1] >= 4

\* Each instruction starts where the one before it ends, the first at 0.
WellFormedInstructions ==
    \A k \in 1..Len(instructions) :
        instructions[k].offset
        = (IF k = 1 THEN 0
           ELSE instructions[k - 1].offset
                + opcode_length(code, instructions[k - 1].offset).val)

\* A branch, a switch or one of the seven exit instructions.
TransfersControl(inst) ==
    \/ inst.opcode \in IFEQ..JSR
    \/ inst.opcode \in {IFNULL, IFNONNULL, GOTO_W, JSR_W}
    \/ inst.opcode \in {TABLESWITCH, LOOKUPSWITCH}
    \/ inst.opcode \in {IRETURN, LRETURN, FRETURN, DRETURN, ARETURN, RETURN,
                        ATHROW}

\* C22: in a graph returned for a well-formed instruction list every
\* branch, switch and exit instruction is the last instruction of the
\* block that contains it; a block that does not end in a branch or switch
\* has at most one outgoing edge, and a block without any instruction has
\* none.
C22_ControlTransfersEndBlocks ==
    (ReturnedOk /\ WellFormedInstructions) =>
        \A b \in 1..Len(Graph.blocks) :
            LET block == Graph.blocks[b]
                out == EdgesFrom(Graph.edges, block.start_offset)
            IN  /\ \A p \in 1..(Len(block.instructions) - 1) :
                     ~TransfersControl(block.instructions[p])
                /\ block.instructions = <<>> => out = <<>>
                /\ (/\ block.instructions # <<>>
                    /\ LastInst(block).opcode \notin IFEQ..JSR
                    /\ LastInst(block).opcode \notin {IFNULL, IFNONNULL, GOTO_W,
                                                     JSR_W, TABLESWITCH,
                                                     LOOKUPSWITCH})
                   => Len(out) <= 1

\* C22 witness: a returned graph with edges that has a block of two
\* instructions ending in an exit instruction or a branch that another
\* instruction follows, and a block without any instruction that is not
\* the last block.
C22_Witness ==
    /\ ReturnedOk
    /\ WellFormedInstructions
    /\ Len(instructions) = 3
    /\ \E b \in 1..(Len(Graph.blocks) - 1) :
         /\ Graph.blocks[b].instructions = <<>>
         /\ Graph.edges # <<>>
    /\ \E b \in 1..Len(Graph.blocks) :
         LET block == Graph.blocks[b]
         IN  /\ Len(block.instructions) = 2
             /\ LastInst(block).opcode \in {RETURN, ATHROW, IFEQ, GOTO}
             /\ LastInst(block).offset < instructions[Len(instructions)].offset

====
